---- MODULE Spec2Model ----
(***************************************************************************)
(* Forecast Serving & Caching Engine (src/MLE/api.py, src/MLE/cache.py).   *)
(*                                                                         *)
(* The /predict handler is a coroutine on a single event loop.  Its only   *)
(* suspension point is `await run_in_threadpool(model, batch)`, so one     *)
(* request is three atomic steps of the loop (Begin, Resume) around the    *)
(* worker-thread execution of the forward pass (WorkerStart, WorkerFinish).*)
(* Redis is modelled as a key -> (value, expiry) store with a clock.       *)
(***************************************************************************)
EXTENDS Integers, Sequences, FiniteSets, TLC

\* ---------------------------------------------------------------- bounds
NumReqs   == 2      \* /predict requests in one run
WindowLen == 2      \* stands for the 60 elements of a window
Horizon   == 2      \* stands for the 30 steps of a forecast
PoolSize  == 1      \* worker threads of the threadpool
MaxTime   == 3600   \* the clock stops here

\* ------------------------------------------------------- program constants
Ttl == 3600

Tickers   == {"nvda", "MSFT", "AAA", "BAD"}
Prices    == {-2, -1, 1}          \* the floats -2.0, -1.0, 1.0
TimeSteps == {3599, 3600}
AllWindows == [1..WindowLen -> Prices]
\* the windows the requests send: they differ in the most recent price
Windows   == {w \in AllWindows : \A i \in 1..(WindowLen - 1) : w[i] = 1}
FlatWindow == [i \in 1..WindowLen |-> 1]
\* the (ticker, window) pairs of the requests
Inputs    == ({"nvda"} \X Windows) \cup ({"MSFT", "AAA", "BAD"} \X {FlatWindow})

NoTicker == "-"

\* The result of a call: a value (Some), Python's None, or an exception
\* that leaves the call (exc # "").
None      == [some |-> FALSE, v |-> <<>>, exc |-> ""]
Some(x)   == [some |-> TRUE, v |-> x, exc |-> ""]
Raises(e) == [some |-> FALSE, v |-> <<>>, exc |-> e]

\* str.upper() on the request tickers
Upper(t) == IF t = "nvda" THEN "NVDA" ELSE t

\* os.path.exists(path) and the outcome of unpickling what is there
ArtifactStore(ticker) ==
    CASE ticker = "NVDA" -> "ok"
      [] ticker = "MSFT" -> "ok"
      [] ticker = "BAD"  -> "corrupt"
      [] OTHER           -> "absent"

\* The loaded model as a callable: a deterministic function of the window.
SymBias(ticker) == IF ticker = "MSFT" THEN 10 ELSE 0
Forward(ticker, data) ==
    [i \in 1..Horizon |-> data[Len(data)] + SymBias(ticker) + i]

\* ------------------------------------------------------------ cache.py
\* hash(x) of a float with a small integral value: the value itself,
\* except that CPython never returns -1.
PyHashFloat(x) == IF x = -1 THEN -2 ELSE x

\* hash(tuple(data)): CPython combines the element hashes ("lanes") and the
\* length.  The combination is kept injective here, so two windows have the
\* same hash in the model only if they have the same hash in CPython.
PyHashTuple(data) == [i \in 1..Len(data) |-> PyHashFloat(data[i])]

get_key(ticker, insample_hash) == <<"pred", Upper(ticker), insample_hash>>

CacheKey(ticker, data) == get_key(ticker, PyHashTuple(data))

\* json.dumps / json.loads of a list of floats, as a token sequence
Tok(k, n) == <<k, n>>
JsonDumps(list) ==
    <<Tok("[", 0)>> \o
    [i \in 1..(IF Len(list) = 0 THEN 0 ELSE 2 * Len(list) - 1) |->
        IF i % 2 = 1 THEN Tok("num", list[(i + 1) \div 2]) ELSE Tok(",", 0)] \o
    <<Tok("]", 0)>>
JsonLoads(text) ==
    [i \in 1..((Len(text) - 1) \div 2) |-> text[2 * i][2]]

\* ------------------------------------------------------ DA_API/api_.py
MaxDays == 6        \* generate_future_dates is called for 0..MaxDays dates
MinHistory        == 60    \* len(data) < 60: insufficient data
ValidationHistory == 90    \* len(close_prices) >= 90: validation forecast
HoldoutDays       == 30    \* close_prices[-30:]
FutureWindow      == 60    \* close_prices[-60:]
ForecastDays      == 30    \* the horizon of the deployed model

\* the history lengths yfinance returns in the model
HistoryLens == 57..93
\* the i-th trading day, counted in days from a Monday
TradingDay(i) == 7 * ((i - 1) \div 5) + ((i - 1) % 5)
\* the Close column: a ramp, or a flat series
Histories(n) == {[i \in 1..n |-> i], [i \in 1..n |-> 100]}

\* seq[lo:hi] and seq[lo:] of Python for a list
PyIndex(i, n) == IF i < 0 THEN (IF n + i < 0 THEN 0 ELSE n + i)
                 ELSE (IF i > n THEN n ELSE i)
PySlice(seq, lo, hi) ==
    LET a == PyIndex(lo, Len(seq))
        b == PyIndex(hi, Len(seq))
    IN IF b <= a THEN <<>> ELSE SubSeq(seq, a + 1, b)
PySliceFrom(seq, lo) ==
    LET a == PyIndex(lo, Len(seq))
    IN IF Len(seq) <= a THEN <<>> ELSE SubSeq(seq, a + 1, Len(seq))

\* what the Serving Engine answers for a window with status 200: a forecast
\* that rises from the last price, stays at it, or is one above it for two
\* days
MleForecast(window, shape) ==
    [i \in 1..ForecastDays |->
        window[Len(window)] + (CASE shape = "ramp" -> i
                                 [] shape = "flat" -> 0
                                 [] OTHER -> IF i <= 2 THEN 1 ELSE 0)]

\* the replies to requests.post: a 200 with one of the forecasts, or
\* another status, a timeout or a connection error
Replies == {"ramp", "flat", "near", "error"}

\* get_forecast(ticker, data) of the Analysis Engine: the forecast of a 200
\* reply, [] otherwise.  "short" is a 200 reply of a server at MLE_API_URL
\* whose model has a horizon of one day less.
da_get_forecast(data, reply) ==
    CASE reply = "error" -> <<>>
      [] reply = "short" -> SubSeq(MleForecast(data, "flat"), 1, ForecastDays - 1)
      [] OTHER -> MleForecast(data, reply)

AbsDiff(x, y) == IF x < y THEN y - x ELSE x - y
SumAbs(seq1, seq2) ==
    LET F[i \in 0..Len(seq1)] ==
            IF i = 0 THEN 0 ELSE F[i - 1] + AbsDiff(seq1[i], seq2[i])
    IN F[Len(seq1)]
\* an MAE cut after the second decimal
MaeCents_truncate(target, pred) ==
    (100 * SumAbs(target, pred)) \div Len(target)

\* round(float(np.mean(np.abs(target - pred))), 2), in hundredths
MaeCents(target, pred) ==
    (2 * 100 * SumAbs(target, pred) + Len(target)) \div (2 * Len(target))

\* date.weekday() of a day counted from a Monday: 5 is Saturday, 6 Sunday
Weekday(d) == d % 7

\* a weekday test that lets Saturdays through
IsBusinessDay_sat(d) == Weekday(d) <= 5

\* generate_future_dates, line 253
IsBusinessDay(d) == Weekday(d) < 5

NoCall == [pc |-> "idle", start_date |-> 0, days |-> 0,
           current_date |-> 0, future_dates |-> <<>>]

\* generate_future_dates(start_date_str, days), as the list it returns
generate_future_dates(start, days) ==
    LET F[k \in 0..days] ==
            IF k = 0 THEN start
            ELSE LET nxt == F[k - 1] + 1
                 IN IF Weekday(nxt) < 5 THEN nxt
                    ELSE IF Weekday(nxt + 1) < 5 THEN nxt + 1
                    ELSE nxt + 2
    IN [k \in 1..days |-> F[k]]

EmptyValidation == [dates |-> <<>>, actual |-> <<>>, predicted |-> <<>>]
EmptyFuture     == [dates |-> <<>>, predicted |-> <<>>]

NewAnalysis ==
    [pc |-> "idle", close |-> <<>>, dates |-> <<>>,
     input_val |-> <<>>, target_val |-> <<>>,
     posts |-> <<>>,          \* the windows posted to the Serving Engine
     validation |-> EmptyValidation, future |-> EmptyFuture,
     success |-> FALSE, error |-> ""]

\* a lookup of the MAE under a key the validation result does not have
MaeValue_wrongKey(validation) == 0

\* analyze, line 372: forecast_data.get("validation", {}).get("mae", 0)
MaeValue(validation) ==
    IF "mae" \in DOMAIN validation THEN validation.mae ELSE 0

\* a future forecast only for a history of more than 60 points
FutureDue_over(close_prices) == Len(close_prices) > FutureWindow

\* analyze, line 361
FutureDue(close_prices) == Len(close_prices) >= FutureWindow

\* a validation forecast for every history that has more than 90 points
ValidationDue_over(close_prices) == Len(close_prices) > ValidationHistory

\* analyze, line 337
ValidationDue(close_prices) == Len(close_prices) >= ValidationHistory

\* ------------------------------------- AI_Engineer/Backend/app/memory.py
MaxAdds      == 11    \* add_exchange is called at most this often per ticker
MaxExchanges == 10    \* memory.py, line 24
\* the tickers of the calls: the chat request's ticker is any string
MemTickers   == {"", "NVDA"}
NoOp         == [name |-> "", ticker |-> ""]

\* ConversationMemory.__init__; added counts the calls of add_exchange for
\* a ticker, and the n-th exchange added for a ticker is written n
NewMemory ==
    [store |-> <<>>, added |-> [t \in MemTickers |-> 0],
     op |-> NoOp, ret |-> <<>>]

\* Python's truth value of a str
Truthy(str) == str # ""

\* list[-n:]
LastN(list, n) ==
    IF Len(list) <= n THEN list ELSE SubSeq(list, Len(list) - n + 1, Len(list))

\* dict.get(key, default)
DictGet(dict, key, default) == IF key \in DOMAIN dict THEN dict[key] ELSE default

VARIABLES
    startup,      \* what redis.ping() did when the cache was constructed
    serving,      \* the module was imported and the app serves requests
    enabled,      \* PredictionCache.enabled
    redis,        \* the backing store: key -> [val, exp]
    now,          \* the clock of the backing store, in seconds
    model_cache,  \* api.model_cache: ticker -> loaded model
    req,          \* the /predict requests
    io,           \* the request whose handler holds the event-loop thread, or 0
    metricsUp,    \* the prometheus_client calls return (TRUE) or raise (FALSE)
    an,           \* the /analyze request of the Analysis Engine
    gfd,          \* a call of generate_future_dates: its arguments and locals
    grad,         \* torch's gradient mode of the event-loop thread, and the
                  \* mode each open no_grad() scope saved when it was entered
    mem           \* ConversationMemory: the store, and the last call made on it

vars == <<startup, serving, enabled, redis, now, model_cache, req, io, metricsUp,
          an, gfd, grad, mem>>

\* the state of the Serving Engine, and the state outside both engines
mleVars == <<startup, serving, enabled, redis, now, model_cache, req, io, metricsUp>>
aux     == <<gfd, grad, mem>>

Reqs == DOMAIN req

\* a constructor that sets the flag before the ping
PredictionCacheInit_flagFirst(ping) ==
    [enabled |-> TRUE, raised |-> FALSE]

\* PredictionCache.__init__: ping is "ok" or the redis.ConnectionError of an
\* unreachable server; raised tells whether the constructor raises.
PredictionCacheInit(ping) ==
    [enabled |-> (ping = "ok"), raised |-> FALSE]

\* redis.get(key): an expired key is never returned
RedisGet(key) ==
    IF key \in DOMAIN redis /\ redis[key].exp > now
    THEN Some(redis[key].val) ELSE None

\* redis.setex(key, ttl, val)
RedisSetex(key, ttl, val) ==
    [k \in DOMAIN redis \cup {key} |->
        IF k = key THEN [val |-> val, exp |-> now + ttl] ELSE redis[k]]

\* PredictionCache.get_forecast; readOk = FALSE: redis.get raises
get_forecast(ticker, data, readOk) ==
    IF ~enabled THEN None
    ELSE LET val == RedisGet(CacheKey(ticker, data))
         IN IF readOk /\ val.some /\ Len(val.v) > 0
            THEN Some(JsonLoads(val.v))
            ELSE None

\* set_forecast without the enabled guard
set_forecast_unguarded(ticker, data, forecast, writeOk) ==
    IF writeOk
    THEN [redis |-> RedisSetex(CacheKey(ticker, data), Ttl, JsonDumps(forecast)),
          exc |-> ""]
    ELSE [redis |-> redis, exc |-> ""]

\* set_forecast without the try/except around redis.setex
set_forecast_unswallowed(ticker, data, forecast, writeOk) ==
    IF ~enabled THEN [redis |-> redis, exc |-> ""]
    ELSE IF writeOk
         THEN [redis |-> RedisSetex(CacheKey(ticker, data), Ttl, JsonDumps(forecast)),
               exc |-> ""]
         ELSE [redis |-> redis, exc |-> "RedisError"]

\* PredictionCache.set_forecast; writeOk = FALSE: redis.setex raises.
\* redis is the store afterwards, exc the exception that leaves the call.
set_forecast(ticker, data, forecast, writeOk) ==
    IF ~enabled THEN [redis |-> redis, exc |-> ""]
    ELSE IF writeOk
         THEN [redis |-> RedisSetex(CacheKey(ticker, data), Ttl, JsonDumps(forecast)),
               exc |-> ""]
         ELSE [redis |-> redis, exc |-> ""]

\* ------------------------------------------------------------ api.py
LogRec(level, msg, ticker) == [level |-> level, msg |-> msg, ticker |-> ticker]

NoModel == [of |-> NoTicker, by |-> 0]

\* load_model_for_ticker that reserves the map entry before it looks for
\* the artifact
load_model_for_ticker_reserve(ticker, r) ==
    IF ticker \in DOMAIN model_cache
    THEN [exc |-> "", model |-> model_cache[ticker], cache |-> model_cache,
          io |-> <<>>, logs |-> <<>>]
    ELSE LET reserved == [t \in DOMAIN model_cache \cup {ticker} |->
                             IF t = ticker THEN NoModel ELSE model_cache[t]]
         IN IF ArtifactStore(ticker) = "absent"
            THEN [exc |-> "FileNotFoundError", model |-> NoModel,
                  cache |-> reserved, io |-> <<"exists">>, logs |-> <<>>]
            ELSE IF ArtifactStore(ticker) = "corrupt"
            THEN [exc |-> "Exception", model |-> NoModel,
                  cache |-> reserved, io |-> <<"exists", "open">>,
                  logs |-> <<LogRec("info", "Loading model for", ticker)>>]
            ELSE LET core_model == [of |-> ticker, by |-> r]
                 IN [exc |-> "", model |-> core_model,
                     cache |-> [t \in DOMAIN model_cache \cup {ticker} |->
                                   IF t = ticker THEN core_model ELSE model_cache[t]],
                     io |-> <<"exists", "open">>,
                     logs |-> <<LogRec("info", "Loading model for", ticker)>>]

\* load_model_for_ticker that reads the artifact on every call and puts the
\* new instance in the map
load_model_for_ticker_reload(ticker, r) ==
    IF ArtifactStore(ticker) = "absent"
    THEN [exc |-> "FileNotFoundError", model |-> NoModel,
          cache |-> model_cache, io |-> <<"exists">>, logs |-> <<>>]
    ELSE IF ArtifactStore(ticker) = "corrupt"
    THEN [exc |-> "Exception", model |-> NoModel,
          cache |-> model_cache, io |-> <<"exists", "open">>,
          logs |-> <<LogRec("info", "Loading model for", ticker)>>]
    ELSE LET core_model == [of |-> ticker, by |-> r]
         IN [exc |-> "", model |-> core_model,
             cache |-> [t \in DOMAIN model_cache \cup {ticker} |->
                           IF t = ticker THEN core_model ELSE model_cache[t]],
             io |-> <<"exists", "open">>,
             logs |-> <<LogRec("info", "Loading model for", ticker)>>]

\* load_model_for_ticker whose first test is `if model_cache:`: any resident
\* model is returned for any symbol
load_model_for_ticker_anyResident(ticker, r) ==
    IF DOMAIN model_cache # {}
    THEN [exc |-> "",
          model |-> model_cache[CHOOSE t \in DOMAIN model_cache : TRUE],
          cache |-> model_cache, io |-> <<>>, logs |-> <<>>]
    ELSE IF ArtifactStore(ticker) = "absent"
    THEN [exc |-> "FileNotFoundError", model |-> NoModel,
          cache |-> model_cache, io |-> <<"exists">>, logs |-> <<>>]
    ELSE IF ArtifactStore(ticker) = "corrupt"
    THEN [exc |-> "Exception", model |-> NoModel,
          cache |-> model_cache, io |-> <<"exists", "open">>,
          logs |-> <<LogRec("info", "Loading model for", ticker)>>]
    ELSE LET core_model == [of |-> ticker, by |-> r]
         IN [exc |-> "", model |-> core_model,
             cache |-> [t \in DOMAIN model_cache \cup {ticker} |->
                           IF t = ticker THEN core_model ELSE model_cache[t]],
             io |-> <<"exists", "open">>,
             logs |-> <<LogRec("info", "Loading model for", ticker)>>]

\* load_model_for_ticker(ticker), called by request r.  exc is the exception
\* that leaves the function, cache the model_cache afterwards, io the calls
\* made on the Artifact Store.
load_model_for_ticker(ticker, r) ==
    IF ticker \in DOMAIN model_cache
    THEN [exc |-> "", model |-> model_cache[ticker], cache |-> model_cache,
          io |-> <<>>, logs |-> <<>>]
    ELSE IF ArtifactStore(ticker) = "absent"
    THEN [exc |-> "FileNotFoundError", model |-> NoModel,
          cache |-> model_cache, io |-> <<"exists">>, logs |-> <<>>]
    ELSE IF ArtifactStore(ticker) = "corrupt"
    THEN [exc |-> "Exception", model |-> NoModel,
          cache |-> model_cache, io |-> <<"exists", "open">>,
          logs |-> <<LogRec("info", "Loading model for", ticker)>>]
    ELSE LET core_model == [of |-> ticker, by |-> r]
         IN [exc |-> "", model |-> core_model,
             cache |-> [t \in DOMAIN model_cache \cup {ticker} |->
                           IF t = ticker THEN core_model ELSE model_cache[t]],
             io |-> <<"exists", "open">>,
             logs |-> <<LogRec("info", "Loading model for", ticker)>>]

NewReq ==
    [pc |-> "new", ticker |-> NoTicker, data |-> <<>>, model |-> NoModel,
     result |-> None, raised |-> FALSE,
     status |-> 0, detail |-> "", forecast |-> <<>>, version |-> "",
     counted |-> <<>>, trace |-> <<>>, logs |-> <<>>,
     storedAt |-> 0,      \* storedAt: the clock at the request's redis.setex
     observed |-> 0,      \* LATENCY observations made for the request
     gone |-> FALSE]      \* the caller closed the connection

\* PREDICTION_COUNTER.labels(ticker=..., model_version=...)
Label(ticker, model_version) ==
    [ticker |-> ticker, model_version |-> model_version]

\* an exception that no handler of predict catches: Starlette answers 500
Unhandled(rec) ==
    [rec EXCEPT !.pc = "done", !.status = 500,
                !.detail = "Internal Server Error"]

\* what get_forecast and set_forecast leave in a request's trace and log
LookupTrace(readOk) ==
    <<"get_forecast">> \o
    (IF enabled THEN <<IF readOk THEN "redis.get" ELSE "redis.get!">> ELSE <<>>)
LookupLogs(ticker, cached, readOk) ==
    IF enabled /\ ~readOk
    THEN <<LogRec("error", "Redis get error", NoTicker)>>
    ELSE IF cached.some THEN <<LogRec("info", "Cache hit for", ticker)>>
    ELSE <<>>
StoreTrace(writeOk) ==
    <<"set_forecast">> \o
    (IF enabled THEN <<IF writeOk THEN "redis.setex" ELSE "redis.setex!">> ELSE <<>>)
StoreLogs(writeOk) ==
    IF enabled /\ ~writeOk
    THEN <<LogRec("error", "Redis set error", NoTicker)>> ELSE <<>>

\* a cached branch that writes the entry back to refresh its TTL
PredictCached_refresh(rec, cached_forecast) ==
    [rec |-> [rec EXCEPT !.pc = "done", !.status = 200,
                         !.forecast = cached_forecast,
                         !.version = "N-BEATS-FP32-CACHED",
                         !.counted = @ \o <<Label(rec.ticker, "cached")>>],
     redis |-> RedisSetex(CacheKey(rec.ticker, rec.data), Ttl,
                          JsonDumps(cached_forecast)),
     cache |-> model_cache]

\* a cached branch that leaves model_version at the default of the
\* response model
PredictCached_defaultTag(rec, cached_forecast) ==
    [rec |-> [rec EXCEPT !.pc = "done", !.status = 200,
                         !.forecast = cached_forecast,
                         !.version = "N-BEATS-FP32",
                         !.counted = @ \o <<Label(rec.ticker, "cached")>>],
     redis |-> redis, cache |-> model_cache]

\* a cached branch that asks for the symbol's model before it answers
PredictCached_preload(rec, cached_forecast) ==
    LET lm == load_model_for_ticker(rec.ticker, 0)
        loaded == [rec EXCEPT !.trace = @ \o <<"load_model">> \o lm.io]
    IN [rec |-> IF lm.exc # ""
                THEN [loaded EXCEPT !.pc = "done", !.status = 404,
                                    !.detail = "Model for ticker not found"]
                ELSE [loaded EXCEPT !.pc = "done", !.status = 200,
                                    !.forecast = cached_forecast,
                                    !.version = "N-BEATS-FP32-CACHED",
                                    !.counted = @ \o <<Label(rec.ticker, "cached")>>],
        redis |-> redis, cache |-> lm.cache]

\* predict, lines 123-129: the lookup returned a forecast
PredictCached(rec, cached_forecast) ==
    [rec |-> IF metricsUp
             THEN [rec EXCEPT !.pc = "done", !.status = 200,
                              !.forecast = cached_forecast,
                              !.version = "N-BEATS-FP32-CACHED",
                              !.counted = @ \o <<Label(rec.ticker, "cached")>>]
             ELSE Unhandled(rec),
     redis |-> redis, cache |-> model_cache]

\* predict, lines 131-160: load the model and submit the forward pass
PredictLoad(rec, r) ==
    LET lm == load_model_for_ticker(rec.ticker, r)
        loaded == [rec EXCEPT !.trace = @ \o <<"load_model">> \o lm.io,
                              !.logs = @ \o lm.logs]
    IN IF lm.exc = "FileNotFoundError"
       THEN [rec |-> IF metricsUp
                     THEN [loaded EXCEPT
                              !.pc = "done", !.status = 404,
                              !.detail = "Model for ticker not found",
                              !.counted = @ \o
                                  <<Label(rec.ticker, "error_not_found")>>]
                     ELSE Unhandled(loaded),
             redis |-> redis, cache |-> lm.cache]
       ELSE IF lm.exc # ""
       THEN [rec |-> LET logged == [loaded EXCEPT !.logs = @ \o
                          <<LogRec("error", "Error loading model", NoTicker)>>]
                     IN IF metricsUp
                        THEN [logged EXCEPT
                                 !.pc = "done", !.status = 500,
                                 !.detail = "Internal error loading model",
                                 !.counted = @ \o
                                     <<Label(rec.ticker, "error_load")>>]
                        ELSE Unhandled(logged),
             redis |-> redis, cache |-> lm.cache]
       ELSE [rec |-> [loaded EXCEPT !.pc = "queued", !.model = lm.model,
                                    !.trace = @ \o <<"submit">>],
             redis |-> redis, cache |-> lm.cache]

\* an except clause that caches an empty forecast for the failed window
PredictExcept_cacheFailure(rec) ==
    [rec |-> [rec EXCEPT !.pc = "done", !.status = 500,
                         !.detail = "Prediction failed",
                         !.logs = @ \o
                   <<LogRec("error", "Prediction failed for", rec.ticker)>>],
     redis |-> IF enabled
               THEN RedisSetex(CacheKey(rec.ticker, rec.data), Ttl, JsonDumps(<<>>))
               ELSE redis]

\* predict, lines 174-176: the except clause around the forward pass
PredictExcept(rec) ==
    [rec |-> [rec EXCEPT !.pc = "done", !.status = 500,
                         !.detail = "Prediction failed",
                         !.logs = @ \o
                   <<LogRec("error", "Prediction failed for", rec.ticker)>>],
     redis |-> redis]

\* predict, lines 162-172: the forward pass returned
PredictTail(rec, writeOk) ==
    LET forecast_list == rec.result.v
        sf == set_forecast(rec.ticker, rec.data, forecast_list, writeOk)
        stored == [rec EXCEPT !.trace = @ \o StoreTrace(writeOk),
                              !.logs = @ \o StoreLogs(writeOk),
                              !.storedAt = IF enabled /\ writeOk THEN now ELSE @]
    IN IF sf.exc # ""
       THEN PredictExcept(stored)
       ELSE IF ~metricsUp
       THEN [rec |-> PredictExcept(stored).rec, redis |-> sf.redis]
       ELSE [rec |-> [stored EXCEPT !.pc = "done", !.status = 200,
                                    !.forecast = forecast_list,
                                    !.version = "N-BEATS-FP32",
                                    !.counted = @ \o
                                        <<Label(rec.ticker, "N-BEATS-FP32")>>],
             redis |-> sf.redis]

\* PrometheusMiddleware.dispatch, the finally clause, once the handler has
\* returned or raised: REQUEST_TOTAL and LATENCY are updated; an exception of
\* theirs leaves the middleware and the caller gets a plain 500.
PrometheusDispatch(rec) ==
    IF rec.pc # "done" THEN rec
    ELSE IF metricsUp THEN [rec EXCEPT !.observed = @ + 1]
    ELSE [Unhandled(rec) EXCEPT !.forecast = <<>>, !.version = ""]

\* torch.is_grad_enabled() of a thread that has not changed it
GradDefault == [enabled |-> TRUE, prev |-> <<>>]

\* torch.no_grad().__enter__ in the handler of r: the context manager saves
\* the thread's gradient mode and switches it off
NoGradEnter(g, r) ==
    [enabled |-> FALSE,
     prev |-> [q \in DOMAIN g.prev \cup {r} |->
                  IF q = r THEN g.enabled ELSE g.prev[q]]]

\* torch.no_grad().__exit__ in the handler of r: the context manager sets the
\* thread's gradient mode to the one it saved
NoGradExit(g, r) ==
    IF r \in DOMAIN g.prev
    THEN [enabled |-> g.prev[r],
          prev |-> [q \in DOMAIN g.prev \ {r} |-> g.prev[q]]]
    ELSE g

\* a handler that calls model(batch) itself: it keeps the event-loop thread
\* until the forward pass is over
ThreadAfter_inline(pc, r) == IF pc = "queued" THEN r ELSE 0

\* the holder of the event-loop thread when the handler of r stops running:
\* `await run_in_threadpool(...)` gives the thread back to the loop
ThreadAfter(pc, r) == 0

Init ==
    /\ \E ping \in {"ok", "ConnectionError"} :
         /\ startup = ping
         /\ enabled = PredictionCacheInit(ping).enabled
         /\ serving = ~PredictionCacheInit(ping).raised
    /\ redis = <<>>
    /\ now = 0
    /\ model_cache = <<>>
    /\ req = [r \in 1..NumReqs |-> NewReq]
    /\ io = 0
    /\ metricsUp = TRUE
    /\ an = NewAnalysis
    /\ gfd = NoCall
    /\ grad = GradDefault
    /\ mem = NewMemory

\* a request model that accepts a list of any length
ValidBody_any(data) == TRUE

\* PredictionRequest.data: Field(..., min_items=60, max_items=60); FastAPI
\* validates the body before it calls predict
ValidBody(data) == Len(data) = WindowLen

\* FastAPI's answer to a body that fails validation: predict is not called
Unprocessable(rec) ==
    [rec EXCEPT !.pc = "done", !.status = 422, !.detail = "validation error"]

\* POST /predict with a body out of inputs: the validation of the body, then
\* predict from its first line to its first return, raise or await
BeginWith(r, inputs) ==
    /\ serving
    /\ io \in {0, r}
    /\ req[r].pc = "new"
    /\ \A q \in Reqs : q < r => req[q].pc # "new"
    /\ \E inp \in inputs,
          readOk \in (IF enabled THEN BOOLEAN ELSE {TRUE}) :
         LET data == inp[2]
             ticker == Upper(inp[1])
             cached_forecast == get_forecast(ticker, data, readOk)
             rec == [req[r] EXCEPT
                        !.ticker = ticker, !.data = data,
                        !.trace = LookupTrace(readOk),
                        !.logs = LookupLogs(ticker, cached_forecast, readOk)]
             out == IF ~ValidBody(data)
                    THEN [rec |-> Unprocessable([req[r] EXCEPT
                                      !.ticker = inp[1], !.data = data]),
                          redis |-> redis, cache |-> model_cache]
                    ELSE IF cached_forecast.exc # ""
                    THEN [rec |-> [rec EXCEPT !.pc = "done", !.status = 500,
                                       !.detail = "Internal Server Error"],
                          redis |-> redis, cache |-> model_cache]
                    ELSE IF cached_forecast.some /\ Len(cached_forecast.v) > 0
                    THEN PredictCached(rec, cached_forecast.v)
                    ELSE PredictLoad(rec, r)
         IN /\ req' = [req EXCEPT ![r] = PrometheusDispatch(out.rec)]
            /\ redis' = out.redis
            /\ model_cache' = out.cache
            /\ io' = ThreadAfter(out.rec.pc, r)
    /\ UNCHANGED <<startup, serving, enabled, now, metricsUp, an, gfd>>

\* POST /predict with a body of the length the request model asks for.  The
\* gradient mode takes no part in a guard or a result of the handler (the
\* forward pass runs in a worker thread, which has a mode of its own), and
\* only SpecGrad observes it.
Begin(r) == BeginWith(r, Inputs) /\ UNCHANGED <<grad, mem>>

\* a thread of its own for every submitted call
WorkerStart_unbounded(r) ==
    /\ req[r].pc = "queued"
    /\ req' = [req EXCEPT ![r].pc = "running",
                          ![r].trace = @ \o <<"forward">>]
    /\ UNCHANGED <<startup, serving, enabled, redis, now, model_cache, io, metricsUp, an, aux>>

\* a worker thread of the pool takes the submitted call
WorkerStart(r) ==
    /\ req[r].pc = "queued"
    /\ Cardinality({q \in Reqs : req[q].pc = "running"}) < PoolSize
    /\ req' = [req EXCEPT ![r].pc = "running",
                          ![r].trace = @ \o <<"forward">>]
    /\ UNCHANGED <<startup, serving, enabled, redis, now, model_cache, io, metricsUp, an, aux>>

\* model(batch) returns or raises in the worker thread
WorkerFinish(r) ==
    /\ req[r].pc = "running"
    /\ \E ok \in BOOLEAN :
         req' = [req EXCEPT
            ![r].pc = "returned",
            ![r].raised = ~ok,
            ![r].result = IF ok THEN Some(Forward(req[r].model.of, req[r].data))
                          ELSE Raises("Exception"),
            ![r].trace = @ \o <<IF ok THEN "forward_ok" ELSE "forward_raise">>]
    /\ UNCHANGED <<startup, serving, enabled, redis, now, model_cache, io, metricsUp, an, aux>>

\* predict, from the completion of the await to its return or raise
ResumeOf(r) ==
    /\ io \in {0, r}
    /\ req[r].pc = "returned"
    /\ \E writeOk \in (IF enabled /\ ~req[r].raised THEN BOOLEAN ELSE {TRUE}) :
         LET out == IF req[r].raised THEN PredictExcept(req[r])
                    ELSE PredictTail(req[r], writeOk)
         IN /\ req' = [req EXCEPT ![r] = PrometheusDispatch(out.rec)]
            /\ redis' = out.redis
    /\ io' = 0
    /\ UNCHANGED <<startup, serving, enabled, now, model_cache, metricsUp, an, gfd>>

Resume(r) == ResumeOf(r) /\ UNCHANGED <<grad, mem>>

\* time passes in the backing store; expired keys are gone
Advance ==
    /\ \E d \in TimeSteps :
         /\ now + d <= MaxTime
         /\ now' = now + d
         /\ redis' = [k \in {j \in DOMAIN redis : redis[j].exp > now + d} |-> redis[k]]
    /\ UNCHANGED <<startup, serving, enabled, model_cache, req, io, metricsUp, an, aux>>

Next ==
    \/ \E r \in Reqs : Begin(r)
    \/ \E r \in Reqs : WorkerStart(r)
    \/ \E r \in Reqs : WorkerFinish(r)
    \/ \E r \in Reqs : Resume(r)
    \/ Advance

Spec == Init /\ [][Next]_vars

\* the same program serving one more request
InitWide ==
    /\ \E ping \in {"ok", "ConnectionError"} :
         /\ startup = ping
         /\ enabled = PredictionCacheInit(ping).enabled
         /\ serving = ~PredictionCacheInit(ping).raised
    /\ redis = <<>>
    /\ now = 0
    /\ model_cache = <<>>
    /\ req = [r \in 1..(NumReqs + 1) |-> NewReq]
    /\ io = 0
    /\ metricsUp = TRUE
    /\ an = NewAnalysis
    /\ gfd = NoCall
    /\ grad = GradDefault
    /\ mem = NewMemory

SpecWide == InitWide /\ [][Next]_vars

\* The handler of r is inside self.redis.get(key) or self.redis.setex(...):
\* redis.Redis is the synchronous client and the call is not awaited, so the
\* handler keeps the event-loop thread until the reply is there.
BlockingCall(r) ==
    /\ serving /\ enabled
    /\ io = 0
    /\ \/ /\ req[r].pc = "new"
          /\ \A q \in Reqs : q < r => req[q].pc # "new"
       \/ /\ req[r].pc = "returned"
          /\ ~req[r].raised
    /\ io' = r
    /\ UNCHANGED <<startup, serving, enabled, redis, now, model_cache, req, metricsUp, an, aux>>

\* the program with the round trips to the backing store as steps of their own
NextIO ==
    \/ Next
    \/ \E r \in Reqs : BlockingCall(r)

SpecIO == Init /\ [][NextIO]_vars

\* The pool hands a free worker to a waiting call, and a forward pass on a
\* worker thread comes to its end.
\* the program started while the backing store was unreachable
InitDown == Init /\ startup = "ConnectionError"

SpecFair ==
    /\ InitDown
    /\ [][Next]_vars
    /\ \A r \in 1..NumReqs : SF_vars(WorkerStart(r)) /\ WF_vars(WorkerFinish(r))

\* The caller of r closes the connection or gives up (the Analysis Engine
\* posts with timeout=5) while the forward pass is pending.  predict takes no
\* Request object and never asks whether the caller is still there, and the
\* await at api.py:160 is not wrapped in a task that could be dropped: the
\* coroutine stays suspended on the worker's result.
Disconnect(r) ==
    /\ req[r].pc \in {"queued", "running"}
    /\ ~req[r].gone
    /\ req' = [req EXCEPT ![r].gone = TRUE]
    /\ UNCHANGED <<startup, serving, enabled, redis, now, model_cache, io, metricsUp, an, aux>>

NextCancel ==
    \/ Next
    \/ \E r \in Reqs : Disconnect(r)

SpecCancel == Init /\ [][NextCancel]_vars

\* the same program where the calls on the metrics registry
\* (PREDICTION_COUNTER, REQUEST_TOTAL, LATENCY) may raise
InitMetrics ==
    /\ \E ping \in {"ok", "ConnectionError"} :
         /\ startup = ping
         /\ enabled = PredictionCacheInit(ping).enabled
         /\ serving = ~PredictionCacheInit(ping).raised
    /\ redis = <<>>
    /\ now = 0
    /\ model_cache = <<>>
    /\ req = [r \in 1..NumReqs |-> NewReq]
    /\ io = 0
    /\ metricsUp \in BOOLEAN
    /\ an = NewAnalysis
    /\ gfd = NoCall
    /\ grad = GradDefault
    /\ mem = NewMemory

SpecMetrics == InitMetrics /\ [][Next]_vars

\* analyze, lines 289-332: fetch the history and compute the indicators
AnalyzeFetch ==
    /\ an.pc = "idle"
    /\ \E n \in HistoryLens : \E close \in Histories(n) :
         an' = IF n < MinHistory
               THEN [an EXCEPT !.pc = "done", !.close = close,
                               !.error = "Insufficient data"]
               ELSE [an EXCEPT !.pc = "fetched", !.close = close,
                               !.dates = [i \in 1..n |-> TradingDay(i)]]
    /\ UNCHANGED <<startup, serving, enabled, redis, now, model_cache, req, io, metricsUp, aux>>

\* analyze, lines 335-358: the validation forecast, for a reply among replies.
\* An exception of the computation leaves the handler through the outer
\* except clause (lines 405-411).
ValidateStep(replies) ==
    /\ an.pc = "fetched"
    /\ \E reply \in replies :
         LET close_prices == an.close
             dates == an.dates
         IN IF ValidationDue(close_prices)
            THEN LET input_val == PySlice(close_prices, -ValidationHistory, -HoldoutDays)
                     target_val == PySliceFrom(close_prices, -HoldoutDays)
                     target_dates == PySliceFrom(dates, -HoldoutDays)
                     val_pred == da_get_forecast(input_val, reply)
                     called == [an EXCEPT !.pc = "validated",
                                          !.input_val = input_val,
                                          !.target_val = target_val,
                                          !.posts = @ \o <<input_val>>]
                 IN an' = IF Len(val_pred) > 0
                          THEN IF Len(val_pred) # Len(target_val)
                               THEN [called EXCEPT !.pc = "done",
                                                   !.error = "ValueError"]
                               ELSE [called EXCEPT !.validation =
                                       [dates |-> target_dates,
                                        actual |-> target_val,
                                        predicted |-> val_pred,
                                        full_dates |-> dates,
                                        full_actual |-> close_prices,
                                        mae |-> MaeCents(target_val, val_pred)]]
                          ELSE called
            ELSE /\ reply = "error"
                 /\ an' = [an EXCEPT !.pc = "validated"]
    /\ UNCHANGED <<startup, serving, enabled, redis, now, model_cache, req, io, metricsUp, aux>>

\* analyze, lines 360-403: the future forecast and the response
AnalyzeFuture ==
    /\ an.pc = "validated"
    /\ \E reply \in Replies :
         LET close_prices == an.close
             dates == an.dates
         IN IF FutureDue(close_prices)
            THEN LET input_future == PySliceFrom(close_prices, -FutureWindow)
                     last_date == dates[Len(dates)]
                     future_pred == da_get_forecast(input_future, reply)
                     mae_value == MaeValue(an.validation)
                     called == [an EXCEPT !.pc = "done", !.success = TRUE,
                                          !.posts = @ \o <<input_future>>]
                 IN an' = IF Len(future_pred) > 0
                          THEN [called EXCEPT !.future =
                                  [dates |-> generate_future_dates(last_date,
                                                                  Len(future_pred)),
                                   predicted |-> future_pred,
                                   predicted_upper |->
                                       [i \in 1..Len(future_pred) |->
                                           100 * future_pred[i] + mae_value],
                                   predicted_lower |->
                                       [i \in 1..Len(future_pred) |->
                                           100 * future_pred[i] - mae_value],
                                   history |-> PySliceFrom(close_prices, -FutureWindow),
                                   history_dates |-> PySliceFrom(dates, -FutureWindow),
                                   mae |-> mae_value]]
                          ELSE called
            ELSE /\ reply = "error"
                 /\ an' = [an EXCEPT !.pc = "done", !.success = TRUE]
    /\ UNCHANGED <<startup, serving, enabled, redis, now, model_cache, req, io, metricsUp, aux>>

AnalyzeValidate == ValidateStep(Replies)

NextAnalyze ==
    \/ AnalyzeFetch
    \/ AnalyzeValidate
    \/ AnalyzeFuture

SpecAnalyze == Init /\ [][NextAnalyze]_vars

\* the validation forecast when the server answers 200 with a forecast that
\* is not 30 values long
AnalyzeValidateShort == ValidateStep({"short"})

NextAnalyzeWide ==
    \/ NextAnalyze
    \/ AnalyzeValidateShort

SpecAnalyzeWide == Init /\ [][NextAnalyzeWide]_vars

\* bodies of 59, 60 and 61 prices (one less, exactly, one more than the
\* request model asks for)
BodyLens  == {WindowLen - 1, WindowLen, WindowLen + 1}
LenInputs == {<<"MSFT", [i \in 1..n |-> 1]>> : n \in BodyLens}

BeginAny(r) == BeginWith(r, LenInputs) /\ UNCHANGED <<grad, mem>>

\* The Serving Engine receiving bodies of any length, and the Analysis
\* Service.  The two services share no state, so their steps commute: the
\* behaviours in which only one of them acts cover all the others.
NextLen ==
    \/ /\ an.pc = "idle"
       /\ \/ \E r \in Reqs : BeginAny(r)
          \/ \E r \in Reqs : WorkerStart(r)
          \/ \E r \in Reqs : WorkerFinish(r)
          \/ \E r \in Reqs : Resume(r)
    \/ /\ \A r \in Reqs : req[r].pc = "new"
       /\ NextAnalyze

SpecLen == Init /\ [][NextLen]_vars

\* ConversationMemory.add_exchange
AddExchange(ticker) ==
    /\ mem.added[ticker] < MaxAdds
    /\ LET n == mem.added[ticker] + 1
           appended == DictGet(mem.store, ticker, <<>>) \o <<n>>
           kept == IF Len(appended) > MaxExchanges
                   THEN LastN(appended, MaxExchanges) ELSE appended
       IN mem' = [store |-> [t \in DOMAIN mem.store \cup {ticker} |->
                               IF t = ticker THEN kept ELSE mem.store[t]],
                  added |-> [mem.added EXCEPT ![ticker] = n],
                  op |-> [name |-> "add_exchange", ticker |-> ticker],
                  ret |-> <<>>]
    /\ UNCHANGED <<mleVars, an, gfd, grad>>

\* ConversationMemory.get_history
GetHistory(ticker) ==
    /\ mem' = [mem EXCEPT !.op = [name |-> "get_history", ticker |-> ticker],
                          !.ret = DictGet(mem.store, ticker, <<>>)]
    /\ UNCHANGED <<mleVars, an, gfd, grad>>

\* ConversationMemory.clear(ticker) with a ticker given
Clear(ticker) ==
    /\ mem' = [mem EXCEPT
                  !.store = IF Truthy(ticker)
                            THEN [t \in DOMAIN mem.store \ {ticker} |-> mem.store[t]]
                            ELSE <<>>,
                  !.op = [name |-> "clear", ticker |-> ticker],
                  !.ret = <<>>]
    /\ UNCHANGED <<mleVars, an, gfd, grad>>

\* ConversationMemory.clear() without an argument
ClearAll ==
    /\ mem' = [mem EXCEPT !.store = <<>>,
                          !.op = [name |-> "clear_all", ticker |-> ""],
                          !.ret = <<>>]
    /\ UNCHANGED <<mleVars, an, gfd, grad>>

NextMemory ==
    \/ \E t \in MemTickers : AddExchange(t)
    \/ \E t \in MemTickers : GetHistory(t)
    \/ \E t \in MemTickers : Clear(t)
    \/ ClearAll

SpecMemory == Init /\ [][NextMemory]_vars

\* The Result Cache holds an unexpired forecast for a symbol that has no
\* artifact in this process's Artifact Store: the entry was stored by a
\* serving process that had the artifact, or before the artifact was removed.
WarmKey == CacheKey("AAA", FlatWindow)
InitWarm ==
    /\ startup = "ok"
    /\ enabled = PredictionCacheInit("ok").enabled
    /\ serving = ~PredictionCacheInit("ok").raised
    /\ redis = (WarmKey :> [val |-> JsonDumps(Forward("AAA", FlatWindow)),
                            exp |-> Ttl])
    /\ now = 0
    /\ model_cache = <<>>
    /\ req = [r \in 1..NumReqs |-> NewReq]
    /\ io = 0
    /\ metricsUp = TRUE
    /\ an = NewAnalysis
    /\ gfd = NoCall
    /\ grad = GradDefault
    /\ mem = NewMemory

\* requests for the symbol without an artifact and for one that has it
WarmInputs == {"AAA", "MSFT"} \X {FlatWindow}

BeginWarm(r) == BeginWith(r, WarmInputs) /\ UNCHANGED <<grad, mem>>

NextWarm ==
    \/ \E r \in Reqs : BeginWarm(r)
    \/ \E r \in Reqs : WorkerStart(r)
    \/ \E r \in Reqs : WorkerFinish(r)
    \/ \E r \in Reqs : Resume(r)
    \/ Advance

SpecWarm == InitWarm /\ [][NextWarm]_vars

\* predict up to `with torch.no_grad():` and the await inside it (api.py
\* 159-160): the scope is entered on the event-loop thread just before the
\* handler is suspended
GradBegin(r) ==
    /\ BeginWith(r, Inputs)
    /\ grad' = IF req'[r].pc = "queued" THEN NoGradEnter(grad, r) ELSE grad
    /\ UNCHANGED mem

\* predict from the completion of the await: the scope is left, by a return
\* or by the exception of the forward pass, before anything else runs
GradResume(r) ==
    /\ ResumeOf(r)
    /\ grad' = NoGradExit(grad, r)
    /\ UNCHANGED mem

NextGrad ==
    \/ \E r \in Reqs : GradBegin(r)
    \/ \E r \in Reqs : WorkerStart(r)
    \/ \E r \in Reqs : WorkerFinish(r)
    \/ \E r \in Reqs : GradResume(r)
    \/ Advance

\* the Serving Engine with the gradient mode of its event-loop thread
SpecGrad == Init /\ [][NextGrad]_vars

\* generate_future_dates, lines 247-249: a call with a start date that falls
\* on any day of the week
GfdCall ==
    /\ gfd.pc = "idle"
    /\ \E start \in 0..6, days \in 0..MaxDays :
         gfd' = [pc |-> "loop", start_date |-> start, days |-> days,
                 current_date |-> start, future_dates |-> <<>>]
    /\ UNCHANGED <<mleVars, an, grad, mem>>

\* generate_future_dates, lines 250-254: one turn of the while loop
GfdStep ==
    /\ gfd.pc = "loop"
    /\ Len(gfd.future_dates) < gfd.days
    /\ LET current_date == gfd.current_date + 1
       IN gfd' = [gfd EXCEPT
                    !.current_date = current_date,
                    !.future_dates = IF IsBusinessDay(current_date)
                                     THEN @ \o <<current_date>> ELSE @]
    /\ UNCHANGED <<mleVars, an, grad, mem>>

\* generate_future_dates, lines 250 and 255: the loop test fails, return
GfdReturn ==
    /\ gfd.pc = "loop"
    /\ ~(Len(gfd.future_dates) < gfd.days)
    /\ gfd' = [gfd EXCEPT !.pc = "returned"]
    /\ UNCHANGED <<mleVars, an, grad, mem>>

NextDates ==
    \/ GfdCall
    \/ GfdStep
    \/ GfdReturn

\* the interpreter goes on with the next statement of a running call
SpecDates ==
    /\ Init
    /\ [][NextDates]_vars
    /\ WF_vars(GfdStep) /\ WF_vars(GfdReturn)

TypeOK ==
    /\ enabled \in BOOLEAN
    /\ now \in 0..MaxTime
    /\ \A r \in Reqs : req[r].pc \in {"new", "queued", "running", "returned", "done"}

\* ------------------------------------------------------------ properties
Has(tr, e)   == \E i \in 1..Len(tr) : tr[i] = e
Count(tr, e) == Cardinality({i \in 1..Len(tr) : tr[i] = e})
Pos(tr, e)   == CHOOSE i \in 1..Len(tr) : tr[i] = e

Done(r)   == req[r].pc = "done"
Stored(r) == Done(r) /\ Has(req[r].trace, "redis.setex")

\* C1: after a successful set_forecast(symbol, window, forecast) on an enabled
\* cache, get_forecast(symbol, window) returns exactly that forecast until the
\* entry's TTL elapses, and a miss once every entry stored for that
\* (symbol, window) has expired.
C1_RoundTrip ==
    \A q \in Reqs :
        Stored(q) =>
            IF now < req[q].storedAt + Ttl
            THEN get_forecast(req[q].ticker, req[q].data, TRUE)
                    = Some(req[q].forecast)
            ELSE (\A p \in Reqs :
                     (Stored(p) /\ req[p].ticker = req[q].ticker
                                /\ req[p].data = req[q].data)
                        => now >= req[p].storedAt + Ttl)
                 => get_forecast(req[q].ticker, req[q].data, TRUE) = None

\* C2: a /predict call for the (symbol, window) of an earlier call that stored
\* its forecast, made before that entry's TTL expires, returns the forecast
\* of the earlier call and does not submit a forward pass.
C2_Idempotent ==
    [][\A q, r \in Reqs :
          (/\ Stored(q)
           /\ req[r].pc = "new" /\ req'[r].pc # "new"
           /\ req'[r].ticker = req[q].ticker
           /\ req'[r].data = req[q].data
           /\ now < req[q].storedAt + Ttl
           /\ Has(req'[r].trace, "redis.get"))
          => (/\ req'[r].pc = "done"
              /\ req'[r].status = 200
              /\ req'[r].forecast = req[q].forecast
              /\ ~Has(req'[r].trace, "submit"))]_vars

\* C6: two requests that differ in the symbol or in an element of the window
\* derive different cache keys, and a forecast served from the cache was
\* stored by a request with the same symbol and the same window.
C6_KeysInjective ==
    /\ \A q, r \in Reqs :
          (/\ req[q].pc # "new" /\ req[r].pc # "new"
           /\ (req[q].ticker # req[r].ticker \/ req[q].data # req[r].data))
          => CacheKey(req[q].ticker, req[q].data)
                # CacheKey(req[r].ticker, req[r].data)
    /\ \A r \in Reqs :
          (Done(r) /\ req[r].version = "N-BEATS-FP32-CACHED")
          => \E q \in Reqs :
                /\ Stored(q)
                /\ req[q].ticker = req[r].ticker
                /\ req[q].data = req[r].data
                /\ req[q].forecast = req[r].forecast

Loads(ticker) == ArtifactStore(ticker) = "ok"
RedisTouched(tr) ==
    \/ Has(tr, "redis.get")   \/ Has(tr, "redis.get!")
    \/ Has(tr, "redis.setex") \/ Has(tr, "redis.setex!")

\* C3: when redis.ping() fails with a connection error at construction, the
\* constructor does not raise, every get_forecast is a miss, every
\* set_forecast leaves the store as it is, and no request fails with an error
\* of the cache.
C3_DisabledCache ==
    startup = "ConnectionError" =>
        /\ serving /\ ~enabled
        /\ redis = <<>>
        /\ \A inp \in Inputs, ok \in BOOLEAN :
              /\ get_forecast(Upper(inp[1]), inp[2], ok) = None
              /\ set_forecast(Upper(inp[1]), inp[2],
                              Forward(Upper(inp[1]), inp[2]), ok)
                    = [redis |-> redis, exc |-> ""]
        /\ \A r \in Reqs :
              /\ req[r].version # "N-BEATS-FP32-CACHED"
              /\ req[r].detail # "Internal Server Error"
              /\ (Done(r) /\ Has(req[r].trace, "forward_ok"))
                    => req[r].status = 200

C3_Witness ==
    /\ startup = "ConnectionError"
    /\ \E r \in Reqs :
          /\ Done(r) /\ req[r].status = 200
          /\ Has(req[r].trace, "get_forecast")
          /\ Has(req[r].trace, "set_forecast")

\* C4: with the store down at startup, every request for a symbol whose model
\* loads submits exactly one forward pass and runs it exactly once, never
\* touches the store, and fails only if its own forward pass raised.
C4_EachRequestInfers ==
    startup = "ConnectionError" =>
        \A r \in Reqs :
            (req[r].pc # "new" /\ Loads(req[r].ticker)) =>
                /\ Count(req[r].trace, "submit") = 1
                /\ ~RedisTouched(req[r].trace)
                /\ Done(r) =>
                      /\ Count(req[r].trace, "forward") = 1
                      /\ (req[r].status = 200 \/ req[r].raised)

C4_Witness ==
    /\ startup = "ConnectionError"
    /\ \E q, r \in Reqs :
          /\ q < r /\ Done(q) /\ Done(r)
          /\ req[q].ticker = req[r].ticker /\ req[q].data = req[r].data
          /\ req[q].status = 200 /\ req[r].status = 200
          /\ Has(req[q].trace, "forward_ok") /\ Has(req[r].trace, "forward_ok")

\* C5: a redis.get that raises makes get_forecast return None and the request
\* goes on as for a miss; a redis.setex that raises leaves set_forecast
\* returning normally; a request with either failure whose forward pass
\* returned answers 200 with the freshly computed forecast.
C5_RuntimeFailureRecovered ==
    /\ \A inp \in Inputs :
          /\ get_forecast(Upper(inp[1]), inp[2], FALSE) = None
          /\ set_forecast(Upper(inp[1]), inp[2],
                          Forward(Upper(inp[1]), inp[2]), FALSE).exc = ""
    /\ \A r \in Reqs :
          /\ req[r].detail # "Internal Server Error"
          /\ Has(req[r].trace, "redis.get!") => Has(req[r].trace, "load_model")
          /\ (/\ Done(r)
              /\ Has(req[r].trace, "redis.get!") \/ Has(req[r].trace, "redis.setex!")
              /\ Has(req[r].trace, "forward_ok"))
             => /\ req[r].status = 200
                /\ req[r].version = "N-BEATS-FP32"
                /\ req[r].forecast = Forward(req[r].ticker, req[r].data)

C5_Witness ==
    \E q, r \in Reqs :
        /\ Done(q) /\ Done(r)
        /\ Has(req[q].trace, "redis.get!") /\ req[q].status = 200
        /\ Has(req[r].trace, "redis.setex!") /\ req[r].status = 200

C8_LoadFailed ==
    \A r \in Reqs :
        (req[r].pc # "new" /\ ArtifactStore(req[r].ticker) = "corrupt") =>
            /\ Done(r) /\ req[r].status = 500
            /\ req[r].detail = "Internal error loading model"
            /\ req[r].ticker \notin DOMAIN model_cache
            /\ Has(req[r].trace, "open")
            /\ \E i \in 1..Len(req[r].logs) :
                  /\ req[r].logs[i].level = "error"
                  /\ req[r].logs[i].ticker = req[r].ticker

\* C9: a request whose forward pass raised ends with 500 "Prediction failed",
\* its last step changes neither the store nor the Model Cache, the model it
\* used stays resident, and a later request for the symbol does not open the
\* artifact and answers 200 unless its own forward pass raises.
C9_PredictionFailed ==
    /\ [](\A r \in Reqs :
            (Done(r) /\ req[r].raised) =>
                /\ req[r].status = 500
                /\ req[r].detail = "Prediction failed"
                /\ ~Has(req[r].trace, "set_forecast")
                /\ req[r].ticker \in DOMAIN model_cache
                /\ model_cache[req[r].ticker] = req[r].model
                /\ \A q \in Reqs :
                      (q > r /\ req[q].pc # "new"
                             /\ req[q].ticker = req[r].ticker) =>
                          /\ ~Has(req[q].trace, "open")
                          /\ (Done(q) /\ ~req[q].raised) => req[q].status = 200)
    /\ [][\A r \in Reqs :
            (req[r].pc = "returned" /\ req[r].raised /\ req'[r].pc = "done")
                => (redis' = redis /\ model_cache' = model_cache)]_vars

C9_Witness ==
    \E q, r \in Reqs :
        /\ r < q /\ Done(r) /\ Done(q)
        /\ req[r].raised /\ req[r].status = 500
        /\ req[q].ticker = req[r].ticker
        /\ Has(req[q].trace, "forward_ok") /\ req[q].status = 200
        /\ req[q].model = req[r].model

\* C10: in every request the lookup comes before the forward pass, a
\* set_forecast comes only after the forward pass of the same request has
\* returned, and the store gets a new or changed entry only in the final step
\* of a request whose forward pass returned, under that request's key.
C10_LookupInferStore ==
    /\ [](\A r \in Reqs :
            /\ Has(req[r].trace, "forward") =>
                  /\ Has(req[r].trace, "get_forecast")
                  /\ Pos(req[r].trace, "get_forecast") < Pos(req[r].trace, "forward")
            /\ Has(req[r].trace, "set_forecast") =>
                  /\ Has(req[r].trace, "forward_ok")
                  /\ Pos(req[r].trace, "forward_ok") < Pos(req[r].trace, "set_forecast"))
    /\ [][\A k \in DOMAIN redis' :
            (k \notin DOMAIN redis \/ redis'[k] # redis[k]) =>
                \E r \in Reqs :
                    /\ req[r].pc = "returned" /\ ~req[r].raised
                    /\ req'[r].pc = "done"
                    /\ Has(req[r].trace, "forward_ok")
                    /\ k = CacheKey(req[r].ticker, req[r].data)]_vars

C10_Witness ==
    \E r \in Reqs :
        /\ Done(r) /\ Has(req[r].trace, "redis.setex")
        /\ req[r].trace = <<"get_forecast", "redis.get", "load_model", "exists",
                            "open", "submit", "forward", "forward_ok",
                            "set_forecast", "redis.setex">>

\* C11: an entry of the Model Cache is never removed or replaced, so the set
\* of resident symbols only grows; a request that calls load_model_for_ticker
\* for a resident symbol gets the resident instance and makes no call on the
\* Artifact Store.
C11_ModelResident ==
    [][/\ \A t \in DOMAIN model_cache :
             t \in DOMAIN model_cache' /\ model_cache'[t] = model_cache[t]
       /\ \A r \in Reqs :
             (/\ req[r].pc = "new" /\ req'[r].pc # "new"
              /\ req'[r].ticker \in DOMAIN model_cache
              /\ Has(req'[r].trace, "load_model"))
             => /\ req'[r].pc = "queued"
                /\ req'[r].model = model_cache[req'[r].ticker]
                /\ ~Has(req'[r].trace, "exists")
                /\ ~Has(req'[r].trace, "open")]_vars

C11_Witness ==
    \E q, r \in Reqs :
        /\ q < r /\ req[q].ticker = req[r].ticker
        /\ Has(req[q].trace, "open")
        /\ Has(req[r].trace, "load_model") /\ ~Has(req[r].trace, "open")
        /\ req[r].model = [of |-> req[r].ticker, by |-> q]
        /\ model_cache[req[r].ticker] = req[r].model

\* C12: while the forward pass of a request is submitted or executes on a
\* worker thread, that request does not hold the event-loop thread, and the
\* next request to arrive can run its handler, to its end if it needs no
\* forward pass.
C12_InferenceOffLoop ==
    /\ \A q \in Reqs : req[q].pc \in {"queued", "running"} => io # q
    /\ (\E q \in Reqs : req[q].pc \in {"queued", "running"}) =>
          \A r \in Reqs :
              (/\ serving /\ req[r].pc = "new"
               /\ \A p \in Reqs : p < r => req[p].pc # "new")
              => ENABLED Begin(r)

C12_Witness ==
    \E q, r \in Reqs :
        /\ q < r /\ req[q].pc = "running"
        /\ Done(r) /\ req[r].status = 404 /\ req[r].observed = 1
        /\ io = 0

\* C13: while a request waits for the reply of redis.get or redis.setex, the
\* event loop can run the handler of another request that is ready to start
\* or to resume.
C13_CooperativeWait ==
    \A r \in Reqs :
        (io = r /\ req[r].pc \in {"new", "returned"}) =>
            \A q \in Reqs \ {r} :
                /\ (/\ req[q].pc = "new"
                    /\ \A p \in Reqs : p < q => req[p].pc # "new")
                   => ENABLED Begin(q)
                /\ req[q].pc = "returned" => ENABLED Resume(q)

\* C14: the forward passes executing at one moment are never more than the
\* worker pool has threads, and a submitted forward pass that waits for a
\* worker is eventually run.
C14_PoolBounded ==
    /\ [](Cardinality({r \in Reqs : req[r].pc = "running"}) <= PoolSize)
    /\ \A r \in 1..NumReqs :
          (req[r].pc = "queued") ~> (req[r].pc = "running")

C14_Witness ==
    /\ Cardinality({r \in Reqs : req[r].pc = "running"}) = PoolSize
    /\ \E r \in Reqs : req[r].pc = "queued"

\* C15: a request whose caller went away while its forward pass was pending
\* no longer waits for the forward pass and never calls set_forecast.
C15_AbandonedDetached ==
    \A r \in Reqs :
        req[r].gone =>
            /\ req[r].pc \notin {"queued", "running", "returned"}
            /\ ~Has(req[r].trace, "set_forecast")

\* C16: whatever the interleaving of the requests, a request that submits a
\* forward pass holds a model loaded from the artifact of its own symbol and
\* its result is that model's, and the Model Cache holds for a symbol the one
\* instance that a request for that symbol loaded from the artifact.
C16_ModelCacheSound ==
    /\ \A r \in Reqs :
          Has(req[r].trace, "submit") =>
              /\ Loads(req[r].ticker)
              /\ req[r].model.of = req[r].ticker
              /\ req[r].ticker \in DOMAIN model_cache
              /\ model_cache[req[r].ticker] = req[r].model
              /\ Has(req[r].trace, "forward_ok")
                    => req[r].result = Some(Forward(req[r].ticker, req[r].data))
    /\ \A t \in DOMAIN model_cache :
          /\ model_cache[t].of = t
          /\ model_cache[t].by \in Reqs
          /\ LET q == model_cache[t].by
             IN /\ req[q].ticker = t
                /\ req[q].model = model_cache[t]
                /\ Count(req[q].trace, "open") = 1
          /\ \A r \in Reqs :
                (req[r].ticker = t /\ Has(req[r].trace, "open"))
                => r = model_cache[t].by

C16_Witness ==
    \E q, r \in Reqs :
        /\ q # r /\ req[q].ticker = req[r].ticker
        /\ req[q].pc \in {"queued", "running"}
        /\ req[r].pc \in {"queued", "running"}
        /\ req[q].model = req[r].model
        /\ DOMAIN model_cache = {req[q].ticker}

\* C17: a 200 response carries the tag N-BEATS-FP32-CACHED exactly when its
\* forecast came from the lookup and no forward pass was submitted, and the
\* tag N-BEATS-FP32 exactly when the forward pass of the request returned.
C17_VersionTag ==
    \A r \in Reqs :
        (Done(r) /\ req[r].status = 200) =>
            /\ req[r].version \in {"N-BEATS-FP32-CACHED", "N-BEATS-FP32"}
            /\ req[r].version = "N-BEATS-FP32-CACHED"
                  <=> (Has(req[r].trace, "redis.get")
                       /\ ~Has(req[r].trace, "submit"))
            /\ req[r].version = "N-BEATS-FP32"
                  <=> Has(req[r].trace, "forward_ok")

C17_Witness ==
    \E q, r \in Reqs :
        /\ Done(q) /\ req[q].status = 200 /\ req[q].version = "N-BEATS-FP32"
        /\ Done(r) /\ req[r].status = 200
        /\ req[r].version = "N-BEATS-FP32-CACHED"
        /\ req[r].forecast = req[q].forecast

\* the label value that stands for the outcome of a finished request
Outcome(rec) ==
    CASE rec.version = "N-BEATS-FP32-CACHED" -> {"cached"}
      [] rec.version = "N-BEATS-FP32" -> {"N-BEATS-FP32"}
      [] rec.status = 404 -> {"error_not_found"}
      [] rec.detail = "Internal error loading model" -> {"error_load"}
      [] OTHER -> {"error_predict", "error_prediction", "error"}

\* C18: every finished /predict request, whatever its outcome, has incremented
\* exactly one prediction counter, labelled with its symbol and its outcome,
\* and has exactly one latency observation.
C18_OneCounterOneLatency ==
    \A r \in Reqs :
        Done(r) =>
            /\ Len(req[r].counted) = 1
            /\ req[r].counted[1].ticker = req[r].ticker
            /\ req[r].counted[1].model_version \in Outcome(req[r])
            /\ req[r].observed = 1

\* C19: the response of a finished request is fixed by its lookup, its load
\* and its forward pass alone, whether the metrics calls return or raise: a
\* forecast that was computed or found in the cache is answered with 200, and
\* the error responses are those of the load and of the forward pass.
C19_MetricsSideChannel ==
    \A r \in Reqs :
        Done(r) =>
            IF Has(req[r].trace, "forward_ok")
            THEN /\ req[r].status = 200
                 /\ req[r].forecast = req[r].result.v
                 /\ req[r].version = "N-BEATS-FP32"
            ELSE IF Has(req[r].trace, "forward_raise")
            THEN req[r].status = 500 /\ req[r].detail = "Prediction failed"
            ELSE IF ~Has(req[r].trace, "load_model")
            THEN /\ req[r].status = 200
                 /\ req[r].version = "N-BEATS-FP32-CACHED"
                 /\ Len(req[r].forecast) = Horizon
            ELSE IF ArtifactStore(req[r].ticker) = "absent"
            THEN req[r].status = 404
            ELSE /\ req[r].status = 500
                 /\ req[r].detail = "Internal error loading model"

\* C20: analyze posts a validation window exactly when the history has at
\* least 90 points; with 60 to 89 points the validation result is the empty
\* result and the analysis succeeds; with 90 or more the validation input is
\* close_prices[-90:-30], 60 values, and the target close_prices[-30:], 30
\* values.
C20_ValidationThreshold ==
    LET n == Len(an.close) IN
    /\ an.pc \in {"validated", "done"} =>
          /\ n < 90 =>
                /\ an.input_val = <<>>
                /\ \A i \in 1..Len(an.posts) : an.pc = "done" /\ i = 1
                /\ an.validation = EmptyValidation
          /\ (n >= 90 /\ an.error = "") =>
                /\ Len(an.posts) >= 1
                /\ Len(an.input_val) = 60
                /\ an.posts[1] = an.input_val
                /\ Len(an.target_val) = 30
                /\ \A i \in 1..60 : an.input_val[i] = an.close[n - 90 + i]
                /\ \A i \in 1..30 : an.target_val[i] = an.close[n - 30 + i]
                /\ an.validation # EmptyValidation =>
                      /\ an.validation.actual = an.target_val
                      /\ Len(an.validation.predicted) = 30
    /\ (an.pc = "done" /\ n >= 60) =>
          /\ an.success /\ an.error = ""
          /\ Len(an.posts) = IF n >= 90 THEN 2 ELSE 1
    /\ (an.pc = "done" /\ n < 60) => ~an.success /\ an.posts = <<>>

C20_Witness ==
    /\ an.pc = "done" /\ an.success
    /\ Len(an.close) = 90
    /\ an.input_val = [i \in 1..60 |-> i]
    /\ an.target_val = [i \in 1..30 |-> 60 + i]
    /\ an.validation # EmptyValidation
    /\ an.validation.mae = 0

\* the sum over the steps 1..k of |actual[i] - predicted[i]|
RECURSIVE TotalAbsError(_, _, _)
TotalAbsError(actual, predicted, k) ==
    IF k = 0 THEN 0
    ELSE TotalAbsError(actual, predicted, k - 1)
            + (IF actual[k] >= predicted[k] THEN actual[k] - predicted[k]
               ELSE predicted[k] - actual[k])

\* C21 as stated: the reported validation MAE is the mean over the 30 target
\* steps of |actual[i] - predicted[i]|.
C21_MaeIsMean ==
    an.validation # EmptyValidation =>
        /\ Len(an.validation.actual) = 30
        /\ Len(an.validation.predicted) = 30
        /\ 30 * an.validation.mae
              = 100 * TotalAbsError(an.validation.actual, an.validation.predicted, 30)

\* C21 amended: the reported validation MAE is that mean rounded to two
\* decimals (at most half a hundredth away from it), and it is 0.0 for a
\* flat history of 100.0 with a forecast of 100.0 throughout.
C21_MaeIsRoundedMean ==
    an.validation # EmptyValidation =>
        LET total == TotalAbsError(an.validation.actual, an.validation.predicted, 30)
            off == 30 * an.validation.mae - 100 * total
        IN /\ Len(an.validation.actual) = 30
           /\ Len(an.validation.predicted) = 30
           /\ an.validation.actual = an.target_val
           /\ 2 * off <= 30 /\ 2 * off >= -30
           /\ (\A i \in 1..30 : /\ an.validation.actual[i] = 100
                                 /\ an.validation.predicted[i] = 100)
                 => an.validation.mae = 0

C21_Witness ==
    /\ Len(an.close) = 90
    /\ \A i \in 1..90 : an.close[i] = 100
    /\ an.validation # EmptyValidation
    /\ \A i \in 1..30 : an.validation.predicted[i] = 100
    /\ an.validation.mae = 0

\* C22: generate_future_dates(start, n) returns, and what it returns are
\* exactly n dates, strictly increasing, all after start, none a Saturday or
\* a Sunday, with no weekday between start and the last of them left out;
\* after a Friday the first date is the Monday that follows.
C22_FutureDates ==
    /\ [](gfd.pc = "returned" =>
            LET out == gfd.future_dates
                n == gfd.days
            IN /\ Len(out) = n
               /\ \A i \in 1..n : out[i] > gfd.start_date /\ out[i] % 7 \notin {5, 6}
               /\ \A i \in 1..(n - 1) : out[i] < out[i + 1]
               /\ n >= 1 =>
                     /\ \A d \in (gfd.start_date + 1)..out[n] :
                           d % 7 \notin {5, 6} => \E i \in 1..n : out[i] = d
                     /\ gfd.start_date % 7 = 4 => out[1] = gfd.start_date + 3
               /\ out = generate_future_dates(gfd.start_date, n))
    /\ (gfd.pc = "loop") ~> (gfd.pc = "returned")

C22_Witness ==
    /\ gfd.pc = "returned"
    /\ gfd.start_date = 4 /\ gfd.days = 6
    /\ gfd.future_dates = <<7, 8, 9, 10, 11, 14>>

\* C23: in a future-forecast result, upper is predicted + mae and lower is
\* predicted - mae at every step, where mae is the MAE of the validation
\* result of the same request, or 0 when the request has none; dates,
\* predicted, upper and lower have the same length.
C23_ConfidenceBounds ==
    an.future # EmptyFuture =>
        LET f == an.future
            m == IF an.validation = EmptyValidation THEN 0 ELSE an.validation.mae
        IN /\ f.mae = m
           /\ Len(f.dates) = Len(f.predicted)
           /\ Len(f.predicted_upper) = Len(f.predicted)
           /\ Len(f.predicted_lower) = Len(f.predicted)
           /\ \A i \in 1..Len(f.predicted) :
                 /\ f.predicted_upper[i] = 100 * f.predicted[i] + m
                 /\ f.predicted_lower[i] = 100 * f.predicted[i] - m
           /\ (Len(an.close) < 90 \/ an.validation = EmptyValidation) =>
                 \A i \in 1..Len(f.predicted) :
                     /\ f.predicted_upper[i] = 100 * f.predicted[i]
                     /\ f.predicted_lower[i] = 100 * f.predicted[i]

C23_Witness ==
    /\ an.pc = "done" /\ an.future # EmptyFuture
    /\ an.validation # EmptyValidation /\ an.validation.mae = 7
    /\ an.future.predicted_upper[1] = 100 * an.future.predicted[1] + 7
    /\ an.future.predicted_lower[30] = 100 * an.future.predicted[30] - 7

\* C24: a finished analysis of a history of 60 or more points has attempted
\* the future forecast whatever became of the validation step, it is a
\* successful response, and it carries the future forecast when that was
\* available and the validation result when that was computed.
C24_SubForecastsIsolated ==
    (an.pc = "done" /\ Len(an.close) >= 60) =>
        /\ Len(an.posts) = (IF Len(an.close) >= 90 THEN 2 ELSE 1)
        /\ an.posts[Len(an.posts)] = SubSeq(an.close, Len(an.close) - 59, Len(an.close))
        /\ an.success
        /\ an.error = ""

C26_WritesAgree ==
    [][ /\ \A k \in (DOMAIN redis) \cap (DOMAIN redis') :
              redis'[k].val = redis[k].val
        /\ \A r \in Reqs :
              (req'[r].pc = "done" /\ req'[r].status = 200)
              => req'[r].forecast = Forward(req'[r].ticker, req'[r].data) ]_vars

\* C27: every window that reaches the lookup, the forward pass or the store
\* has exactly the input size of the model: /predict answers a body of any
\* other length with 422 before it touches the cache or a model, every key of
\* the store was derived from a window of that size, and both windows that
\* analyze posts have exactly 60 elements.
C27_WindowLength ==
    /\ \A r \in Reqs :
          req[r].pc # "new" =>
             IF Len(req[r].data) = WindowLen
             THEN req[r].status # 422
             ELSE /\ req[r].pc = "done" /\ req[r].status = 422
                  /\ req[r].trace = <<>> /\ req[r].logs = <<>>
                  /\ req[r].model = NoModel /\ req[r].forecast = <<>>
    /\ \A k \in DOMAIN redis : Len(k[3]) = WindowLen
    /\ \A t \in DOMAIN model_cache :
          \E r \in Reqs : req[r].ticker = t /\ Len(req[r].data) = WindowLen
    /\ \A i \in 1..Len(an.posts) : Len(an.posts[i]) = 60

C27_Witness ==
    \E q, r \in Reqs :
        /\ Len(req[q].data) = WindowLen + 1 /\ req[q].status = 422
        /\ Stored(r) /\ req[r].status = 200
        /\ DOMAIN redis = {CacheKey(req[r].ticker, req[r].data)}

\* C28: whatever the interleaving of the /predict requests, once every
\* request that entered a no-grad scope has left it, the gradient mode of the
\* event-loop thread is the one it had before the first request started.
C28_GradModeRestored ==
    (\A r \in Reqs : req[r].pc \in {"new", "done"}) =>
        grad = GradDefault

\* C29: a /predict whose lookup finds an unexpired entry is answered in that
\* step with the entry's forecast, tagged as cached, without a call on the
\* Model Cache or the Artifact Store, without a forward pass and without a
\* store, and leaves the Model Cache and the Result Cache as they were; this
\* is so for a symbol whose artifact is absent too.
C29_HitTouchesNothing ==
    [][\A r \in Reqs :
          LET key == CacheKey(req'[r].ticker, req'[r].data)
          IN (/\ req[r].pc = "new" /\ req'[r].pc # "new"
              /\ enabled
              /\ req'[r].trace # <<>> /\ Has(req'[r].trace, "redis.get")
              /\ RedisGet(key).some)
             => /\ req'[r].pc = "done" /\ req'[r].status = 200
                /\ req'[r].forecast = JsonLoads(redis[key].val)
                /\ req'[r].version = "N-BEATS-FP32-CACHED"
                /\ req'[r].trace = <<"get_forecast", "redis.get">>
                /\ req'[r].model = NoModel
                /\ model_cache' = model_cache
                /\ redis' = redis]_vars

C29_Witness ==
    \E r \in Reqs :
        /\ Done(r) /\ req[r].ticker = "AAA" /\ req[r].status = 200
        /\ req[r].version = "N-BEATS-FP32-CACHED"
        /\ req[r].forecast = Forward("AAA", FlatWindow)
        /\ req[r].trace = <<"get_forecast", "redis.get">>
        /\ ArtifactStore("AAA") = "absent"
        /\ model_cache = <<>>
        /\ WarmKey \in DOMAIN redis

\* C30: after any sequence of add_exchange, get_history and clear, the
\* history of every ticker has at most 10 exchanges, which are the ones added
\* last for that ticker, in the order they were added; get_history returns
\* that history; and clear(ticker) removes the history of that ticker only
\* and leaves the history of every other ticker as it was.
C30_MemoryBounded ==
    [][/\ \A t \in DOMAIN mem'.store :
             LET h == mem'.store[t]
             IN /\ Len(h) <= 10
                /\ \A i \in 1..Len(h) : h[i] = mem'.added[t] - Len(h) + i
       /\ mem'.op.name = "get_history" =>
             mem'.ret = DictGet(mem.store, mem'.op.ticker, <<>>)
       /\ mem'.op.name = "clear" =>
             /\ mem'.op.ticker \notin DOMAIN mem'.store
             /\ \A t \in MemTickers \ {mem'.op.ticker} :
                   /\ t \in DOMAIN mem'.store <=> t \in DOMAIN mem.store
                   /\ DictGet(mem'.store, t, <<>>) = DictGet(mem.store, t, <<>>)
      ]_vars

====
